---------------------------- MODULE Spec2Model ----------------------------
(***************************************************************************)
(* OrderedMultiDictBase (utils/collections_/orderedmultidictBase.pyx): an  *)
(* ordered multi-valued map made of                                        *)
(*   _items : OrderedDict[int, (key, value)]         (the item ledger)     *)
(*   _map   : unordered_map[key, deque[(int, value)]] (the key index)      *)
(*   _index : size_t                                  (the slot counter)   *)
(* The unordered_map hashes with PyObject_Hash and compares two keys by    *)
(* comparing their hashes (pyObjectPtrHash.h).                             *)
(***************************************************************************)
EXTENDS Integers, Sequences, FiniteSets, TLC

(***************************************************************************)
(* Bounds of the model.                                                    *)
(***************************************************************************)
\* cap of the slot counter _index (guards of the adding actions)
MaxIndex == 3
\* values are the integers 1..NumVals
NumVals == 2
\* longest list handed to addAll / extend / load / setAll / setdefaultAll by
\* the actions; these operations are loops of add, so longer lists reach no
\* further states, and the properties of calls quantify over their own lists
MaxLen == 1

(***************************************************************************)
(* Key objects.  A key is a Python object with an identity, a value (for   *)
(* == and <) and a hash.  The four objects are                             *)
(*   1 : the int -1          2 : the float -1.0   (1 == 2, 1 is not 2)     *)
(*   3 : the int -2          4 : the int 5                                 *)
(* CPython hashes a small number to itself, except that hash(-1) = -2, so  *)
(* objects 1, 2 and 3 have the same hash while 3 is unequal to 1 and 2.    *)
(***************************************************************************)
KeyObjs == {1, 2, 3, 4}

KeyVal(k) == CASE k = 1 -> -1
               [] k = 2 -> -1
               [] k = 3 -> -2
               [] OTHER -> 5

\* PyObjectPtrHash: PyObject_Hash(o)
PyObjectPtrHash(k) == IF KeyVal(k) = -1 THEN -2 ELSE KeyVal(k)

\* PyObjectPtrHashEqual: hash(lhs) == hash(rhs)
PyObjectPtrHashEqual(lhs, rhs) == PyObjectPtrHash(lhs) = PyObjectPtrHash(rhs)

\* Python's == on two key objects
KeyEq(k1, k2) == KeyVal(k1) = KeyVal(k2)

Values == 1..NumVals

\* the builds of getAllOrNull's failing assertion: a cdef function with a
\* pointer result either propagates the AssertionError to its caller or
\* reports it as unraisable and returns NULL
Builds == {"propagate", "swallow"}

VARIABLES
  items,     \* self._items: sequence of [slot, key, val] in OrderedDict order
  map,       \* self._map[0]: stored key object -> sequence of <<slot, value>>
  index,     \* self._index
  build      \* how this build treats an exception inside a C-level function

vars == <<items, map, index, build>>

\* the three fields of one OrderedMultiDictBase
Self == [items |-> items, map |-> map, index |-> index]

\* __cinit__ / __init__ without an iterable
EmptyDict == [items |-> <<>>, map |-> <<>>, index |-> 0]


\* Python's None (the default of get / getFirst / getLast / popAll)
None == 0

\* what a call hands back: the state it leaves, its result and its error
Outcome(s, ret, err) == [s |-> s, ret |-> ret, err |-> err]

(***************************************************************************)
(* The OrderedDict _items.                                                 *)
(***************************************************************************)
\* slot in self._items
ItemsHas(its, slot) == \E i \in 1..Len(its) : its[i].slot = slot

\* self._items[slot]
ItemsGet(its, slot) == its[CHOOSE i \in 1..Len(its) : its[i].slot = slot]

\* del self._items[slot]
ItemsDel(its, slot) == SelectSeq(its, LAMBDA e : e.slot # slot)

\* self._items[slot] = (key, value): a present slot keeps its position
ItemsSet(its, slot, key, value) ==
  LET e == [slot |-> slot, key |-> key, val |-> value] IN
  IF ItemsHas(its, slot)
    THEN [i \in 1..Len(its) |-> IF its[i].slot = slot THEN e ELSE its[i]]
    ELSE Append(its, e)

(***************************************************************************)
(* The unordered_map _map.                                                 *)
(***************************************************************************)
\* self._map.find(key): the stored keys PyObjectPtrHashEqual to key
MapFind(m, key) == {k \in DOMAIN m : PyObjectPtrHashEqual(k, key)}

\* self._map.erase(key)
MapErase(m, key) == [k \in (DOMAIN m) \ MapFind(m, key) |-> m[k]]

\* the entry stored at k set to deque dq
MapPut(m, k, dq) == [x \in (DOMAIN m) \cup {k} |-> IF x = k THEN dq ELSE m[x]]

\* getAllOrNull: "ptr" with the stored key of the entry, "null", or "raise"
\* when the assertion fails and this build propagates it
getAllOrNull(s, key, b) ==
  LET f == MapFind(s.map, key) IN
  IF f = {} THEN [kind |-> "null", at |-> 0]
  ELSE LET k == CHOOSE k \in f : TRUE IN
       IF s.map[k] # <<>> THEN [kind |-> "ptr", at |-> k]
       ELSE IF b = "propagate" THEN [kind |-> "raise", at |-> k]
            ELSE [kind |-> "null", at |-> k]

\* the values of a deque, oldest first
DequeVals(dq) == [i \in 1..Len(dq) |-> dq[i][2]]

(***************************************************************************)
(* add                                                                     *)
(***************************************************************************)
\* key = self._items[keyIndex][0] for a present, non-empty entry
addKey(s, key) ==
  LET f == MapFind(s.map, key) IN
  IF f = {} THEN key
  ELSE LET k == CHOOSE k \in f : TRUE IN
       IF s.map[k] = <<>> THEN key
       ELSE ItemsGet(s.items, Head(s.map[k])[1]).key

\* add is cpdef void: a build that does not propagate the exceptions of C
\* functions reports its KeyError as unraisable and returns normally
add(s, key, value, b) ==
  LET f   == MapFind(s.map, key)
      at  == IF f = {} THEN key ELSE CHOOSE k \in f : TRUE
      dq  == IF f = {} THEN <<>> ELSE s.map[at]
      s1  == [s EXCEPT !.index = s.index + 1]
  IN
  IF dq # <<>> /\ ~ItemsHas(s.items, Head(dq)[1])
    THEN Outcome(s1, <<>>, IF b = "propagate" THEN "KeyError" ELSE "none")
    ELSE Outcome([items |-> ItemsSet(s.items, s.index, addKey(s, key), value),
                  map   |-> MapPut(s.map, at, Append(dq, <<s.index, value>>)),
                  index |-> s.index + 1],
                 <<>>, "none")

\* addAll: for value in valuelist: self.add(key, value)
RECURSIVE addAll(_, _, _, _)
addAll(s, key, valuelist, b) ==
  IF valuelist = <<>> THEN Outcome(s, <<>>, "none")
  ELSE LET r == add(s, key, Head(valuelist), b) IN
       IF r.err # "none" THEN r ELSE addAll(r.s, key, Tail(valuelist), b)

\* an extend that adds the pairs of the list last to first
RECURSIVE extend_lastFirst(_, _, _)
extend_lastFirst(s, keyValuelist, b) ==
  IF keyValuelist = <<>> THEN Outcome(s, <<>>, "none")
  ELSE LET r == extend_lastFirst(s, Tail(keyValuelist), b) IN
       IF r.err # "none" THEN r
       ELSE add(r.s, Head(keyValuelist)[1], Head(keyValuelist)[2], b)

\* extend: for key, value in keyValuelist: self.add(key, value)
RECURSIVE extend(_, _, _)
extend(s, keyValuelist, b) ==
  IF keyValuelist = <<>> THEN Outcome(s, <<>>, "none")
  ELSE LET r == add(s, Head(keyValuelist)[1], Head(keyValuelist)[2], b) IN
       IF r.err # "none" THEN r ELSE extend(r.s, Tail(keyValuelist), b)

\* clear
clear(s) == Outcome(EmptyDict, <<>>, "none")

\* a load without `self.clear()`: the pairs are added to what the map holds
load_noClear(s, iterable, b) == extend(s, iterable, b)

\* load: self.clear(); for k, v in iterable: self.add(k, v)
load(s, iterable, b) == extend(clear(s).s, iterable, b)

\* __cinit__ / __init__(iterable): iterable is <<>> (None) or <<list>>
construct(iterable, b) ==
  IF iterable = <<>> THEN Outcome(EmptyDict, <<>>, "none")
  ELSE load(EmptyDict, iterable[1], b)

\* a copy without `other._index = self._index`: the counter of the new
\* object stays at the 0 of __cinit__
copy_indexZero(s) == [items |-> s.items, index |-> 0, map |-> s.map]

\* copy: a new object with copies of _items, _index and _map
copy(s) == [items |-> s.items, index |-> s.index, map |-> s.map]


(***************************************************************************)
(* Objects and references.  An OrderedMultiDictBase object refers to its   *)
(* OrderedDict and to its unordered_map; a heap holds the OrderedDicts,    *)
(* the unordered_maps and the objects, and a reference is a position.      *)
(***************************************************************************)
\* the heap with the single object s
HeapOf(s) ==
  [ledgers |-> <<s.items>>,
   maps    |-> <<s.map>>,
   objs    |-> <<[items |-> 1, map |-> 1, index |-> s.index]>>]

\* the three fields of object o as the methods see them
Deref(h, o) ==
  [items |-> h.ledgers[h.objs[o].items],
   map   |-> h.maps[h.objs[o].map],
   index |-> h.objs[o].index]

\* a method of object o has left its fields as s, changing its OrderedDict
\* and its unordered_map in place
Mutate(h, o, s) ==
  [ledgers |-> [h.ledgers EXCEPT ![h.objs[o].items] = s.items],
   maps    |-> [h.maps EXCEPT ![h.objs[o].map] = s.map],
   objs    |-> [h.objs EXCEPT ![o].index = s.index]]

\* self._items = <a new OrderedDict>: object o refers to a new ledger
Rebind(h, o, its) ==
  [ledgers |-> Append(h.ledgers, its),
   maps    |-> h.maps,
   objs    |-> [h.objs EXCEPT ![o].items = Len(h.ledgers) + 1]]

\* a copy whose other._items = self._items, without .copy(): both objects
\* refer to one OrderedDict
copyObj_shared(h, o) ==
  [ledgers |-> h.ledgers,
   maps    |-> Append(h.maps, h.maps[h.objs[o].map]),
   objs    |-> Append(h.objs, [items |-> h.objs[o].items,
                               map   |-> Len(h.maps) + 1,
                               index |-> h.objs[o].index])]

\* copy on the heap: the new object is the last of h.objs; it refers to
\* self._items.copy() and to a copy-constructed unordered_map
copyObj(h, o) ==
  [ledgers |-> Append(h.ledgers, h.ledgers[h.objs[o].items]),
   maps    |-> Append(h.maps, h.maps[h.objs[o].map]),
   objs    |-> Append(h.objs, [items |-> Len(h.ledgers) + 1,
                               map   |-> Len(h.maps) + 1,
                               index |-> h.objs[o].index])]


(***************************************************************************)
(* Reads.  A default is passed as <<>> (not given) or <<d>> (given).       *)
(***************************************************************************)
\* get written with the subscript of the commented-out line,
\* self._map[0][key][0].second: operator[] creates an empty entry for a key
\* that has none
get_subscript(s, key, default, b) ==
  LET g == getAllOrNull(s, key, b) IN
  IF g.kind = "raise" THEN Outcome(s, <<>>, "AssertionError")
  ELSE IF g.kind = "ptr" THEN Outcome(s, <<Head(s.map[g.at])[2]>>, "none")
  ELSE Outcome([s EXCEPT !.map = MapPut(s.map, IF g.at = 0 THEN key ELSE g.at, <<>>)],
               IF default = <<>> THEN <<None>> ELSE default, "none")

\* get / getFirst: vals.front().second, else default (None when not given)
get(s, key, default, b) ==
  LET g == getAllOrNull(s, key, b) IN
  IF g.kind = "raise" THEN Outcome(s, <<>>, "AssertionError")
  ELSE IF g.kind = "ptr" THEN Outcome(s, <<Head(s.map[g.at])[2]>>, "none")
  ELSE Outcome(s, IF default = <<>> THEN <<None>> ELSE default, "none")

getFirst(s, key, default, b) ==
  LET g == getAllOrNull(s, key, b) IN
  IF g.kind = "raise" THEN Outcome(s, <<>>, "AssertionError")
  ELSE IF g.kind = "ptr" THEN Outcome(s, <<Head(s.map[g.at])[2]>>, "none")
  ELSE Outcome(s, IF default = <<>> THEN <<None>> ELSE default, "none")

\* getLast written as a copy of getFirst: it reads vals.front()
getLast_front(s, key, default, b) == getFirst(s, key, default, b)

\* getLast: vals.back().second
getLast(s, key, default, b) ==
  LET g == getAllOrNull(s, key, b) IN
  IF g.kind = "raise" THEN Outcome(s, <<>>, "AssertionError")
  ELSE IF g.kind = "ptr"
    THEN Outcome(s, <<s.map[g.at][Len(s.map[g.at])][2]>>, "none")
  ELSE Outcome(s, IF default = <<>> THEN <<None>> ELSE default, "none")

\* getall: the list of the entry's values; default is <<>> (_SENTINEL_) or
\* <<list>>
getall(s, key, default, b) ==
  LET g == getAllOrNull(s, key, b) IN
  IF g.kind = "raise" THEN Outcome(s, <<>>, "AssertionError")
  ELSE IF g.kind = "ptr" THEN Outcome(s, DequeVals(s.map[g.at]), "none")
  ELSE Outcome(s, IF default = <<>> THEN <<>> ELSE default[1], "none")

\* __getitem__: vals.front().second, else KeyError
GetItem(s, key, b) ==
  LET g == getAllOrNull(s, key, b) IN
  IF g.kind = "raise" THEN Outcome(s, <<>>, "AssertionError")
  ELSE IF g.kind = "ptr" THEN Outcome(s, <<Head(s.map[g.at])[2]>>, "none")
  ELSE Outcome(s, <<>>, "KeyError")

\* __contains__: self._map.find(key) != self._map.end()
Contains(s, key) == MapFind(s.map, key) # {}

\* __nonzero__: not self._map.empty()
Nonzero(s) == DOMAIN s.map # {}

\* __len__: len(self._items)
LenOf(s) == Len(s.items)

\* _UniqueKeysView.__len__: self._map.size()
UniqueKeysLen(s) == Cardinality(DOMAIN s.map)

\* _ItemsView.__iter__: the (key, value) pairs of self._items.values()
ItemsView(s) == [i \in 1..Len(s.items) |-> <<s.items[i].key, s.items[i].val>>]

\* _ValuesView.__iter__
ValuesView(s) == [i \in 1..Len(s.items) |-> s.items[i].val]

\* _KeysView.__iter__
KeysView(s) == [i \in 1..Len(s.items) |-> s.items[i].key]

(***************************************************************************)
(* Removals.                                                               *)
(***************************************************************************)
\* popFirst
popFirst(s, key, default, b) ==
  LET g == getAllOrNull(s, key, b) IN
  IF g.kind = "raise" THEN Outcome(s, <<>>, "AssertionError")
  ELSE IF g.kind = "ptr" THEN
    LET popped == Head(s.map[g.at])
        m1     == MapPut(s.map, g.at, Tail(s.map[g.at]))
    IN
    IF ~ItemsHas(s.items, popped[1])
      THEN Outcome([s EXCEPT !.map = m1], <<>>, "KeyError")
      ELSE Outcome([items |-> ItemsDel(s.items, popped[1]),
                    map   |-> IF m1[g.at] = <<>> THEN MapErase(m1, key) ELSE m1,
                    index |-> s.index],
                   <<popped[2]>>, "none")
  ELSE IF default # <<>> THEN Outcome(s, default, "none")
  ELSE Outcome(s, <<>>, "KeyError")

\* popLast
popLast(s, key, default, b) ==
  LET g == getAllOrNull(s, key, b) IN
  IF g.kind = "raise" THEN Outcome(s, <<>>, "AssertionError")
  ELSE IF g.kind = "ptr" THEN
    LET dq     == s.map[g.at]
        popped == dq[Len(dq)]
        m1     == MapPut(s.map, g.at, SubSeq(dq, 1, Len(dq) - 1))
    IN
    IF ~ItemsHas(s.items, popped[1])
      THEN Outcome([s EXCEPT !.map = m1], <<>>, "KeyError")
      ELSE Outcome([items |-> ItemsDel(s.items, popped[1]),
                    map   |-> IF m1[g.at] = <<>> THEN MapErase(m1, key) ELSE m1,
                    index |-> s.index],
                   <<popped[2]>>, "none")
  ELSE IF default # <<>> THEN Outcome(s, default, "none")
  ELSE Outcome(s, <<>>, "KeyError")

\* a pop that forwards to popFirst
pop_first(s, key, default, b) == popFirst(s, key, default, b)

\* pop: return self.popLast(key, default=default)
pop(s, key, default, b) == popLast(s, key, default, b)

\* for val in values[0]: del self._items[val.first] -- stops at the first
\* slot that is not in _items
RECURSIVE delEach(_, _)
delEach(its, dq) ==
  IF dq = <<>> THEN [items |-> its, ok |-> TRUE]
  ELSE IF ~ItemsHas(its, Head(dq)[1]) THEN [items |-> its, ok |-> FALSE]
  ELSE delEach(ItemsDel(its, Head(dq)[1]), Tail(dq))

\* popAll: default is <<>> (None) or <<list>>
popAll(s, key, default, b) ==
  LET g == getAllOrNull(s, key, b) IN
  IF g.kind = "raise" THEN Outcome(s, <<>>, "AssertionError")
  ELSE IF g.kind = "ptr" THEN
    LET d == delEach(s.items, s.map[g.at]) IN
    IF ~d.ok THEN Outcome([s EXCEPT !.items = d.items], <<>>, "KeyError")
    ELSE Outcome([items |-> d.items, map |-> MapErase(s.map, key),
                  index |-> s.index],
                 DequeVals(s.map[g.at]), "none")
  ELSE IF default # <<>> THEN Outcome(s, default[1], "none")
  ELSE Outcome(s, <<>>, "KeyError")

\* _tryDeleteAll (cdef bint): ret is <<1>> for True, <<0>> for False; a build
\* that does not propagate reports an exception as unraisable and returns 0
tryDeleteAll(s, key, b) ==
  LET g == getAllOrNull(s, key, b) IN
  IF g.kind = "raise" THEN Outcome(s, <<>>, "AssertionError")
  ELSE IF g.kind = "ptr" THEN
    LET d == delEach(s.items, s.map[g.at]) IN
    IF ~d.ok
      THEN IF b = "propagate"
             THEN Outcome([s EXCEPT !.items = d.items], <<>>, "KeyError")
             ELSE Outcome([s EXCEPT !.items = d.items], <<0>>, "none")
      ELSE Outcome([items |-> d.items, map |-> MapErase(s.map, key),
                    index |-> s.index],
                   <<1>>, "none")
  ELSE Outcome(s, <<0>>, "none")

\* deleteAll: if not self._tryDeleteAll(key): raise KeyError(key)
deleteAll(s, key, b) ==
  LET r == tryDeleteAll(s, key, b) IN
  IF r.err # "none" THEN r
  ELSE IF r.ret = <<0>> THEN Outcome(r.s, <<>>, "KeyError")
  ELSE Outcome(r.s, <<>>, "none")

\* __delitem__: self.pop(key), the popped value is dropped
delitem(s, key, b) ==
  LET r == pop(s, key, <<>>, b) IN Outcome(r.s, <<>>, r.err)


\* popFirstItem without the `if default is not _absent` branch: the KeyError
\* of popitem is re-raised whatever the default
popFirstItem_reraise(s, default, b) ==
  IF s.items = <<>> THEN Outcome(s, <<>>, "KeyError")
  ELSE
    LET item == Head(s.items)
        s1   == [s EXCEPT !.items = Tail(s.items)]
        g    == getAllOrNull(s1, item.key, b)
    IN
    IF g.kind = "raise" THEN Outcome(s1, <<>>, "AssertionError")
    ELSE IF g.kind = "ptr" THEN
      LET m1 == MapPut(s1.map, g.at, Tail(s1.map[g.at])) IN
      Outcome([s1 EXCEPT !.map = IF m1[g.at] = <<>>
                                   THEN MapErase(m1, item.key) ELSE m1],
              <<item.key, item.val>>, "none")
    ELSE Outcome(s1, <<>>, "RuntimeError")

\* popFirstItem: self._items.popitem(last=False), then pop_front of the
\* entry found under the popped item's key
popFirstItem(s, default, b) ==
  IF s.items = <<>>
    THEN IF default # <<>> THEN Outcome(s, default, "none")
         ELSE Outcome(s, <<>>, "KeyError")
  ELSE
    LET item == Head(s.items)
        s1   == [s EXCEPT !.items = Tail(s.items)]
        g    == getAllOrNull(s1, item.key, b)
    IN
    IF g.kind = "raise" THEN Outcome(s1, <<>>, "AssertionError")
    ELSE IF g.kind = "ptr" THEN
      LET m1 == MapPut(s1.map, g.at, Tail(s1.map[g.at])) IN
      Outcome([s1 EXCEPT !.map = IF m1[g.at] = <<>>
                                   THEN MapErase(m1, item.key) ELSE m1],
              <<item.key, item.val>>, "none")
    ELSE Outcome(s1, <<>>, "RuntimeError")

\* popLastItem: self._items.popitem(last=True), then pop_back
popLastItem(s, default, b) ==
  IF s.items = <<>>
    THEN IF default # <<>> THEN Outcome(s, default, "none")
         ELSE Outcome(s, <<>>, "KeyError")
  ELSE
    LET item == s.items[Len(s.items)]
        s1   == [s EXCEPT !.items = SubSeq(s.items, 1, Len(s.items) - 1)]
        g    == getAllOrNull(s1, item.key, b)
    IN
    IF g.kind = "raise" THEN Outcome(s1, <<>>, "AssertionError")
    ELSE IF g.kind = "ptr" THEN
      LET dq == s1.map[g.at]
          m1 == MapPut(s1.map, g.at, SubSeq(dq, 1, Len(dq) - 1))
      IN
      Outcome([s1 EXCEPT !.map = IF m1[g.at] = <<>>
                                   THEN MapErase(m1, item.key) ELSE m1],
              <<item.key, item.val>>, "none")
    ELSE Outcome(s1, <<>>, "RuntimeError")

(***************************************************************************)
(* Setters.                                                                *)
(***************************************************************************)
\* setdefault
setdefault(s, key, default, b) ==
  LET g == getAllOrNull(s, key, b) IN
  IF g.kind = "raise" THEN Outcome(s, <<>>, "AssertionError")
  ELSE IF g.kind = "ptr" THEN Outcome(s, <<Head(s.map[g.at])[2]>>, "none")
  ELSE LET r == add(s, key, default, b) IN
       IF r.err # "none" THEN r ELSE Outcome(r.s, <<default>>, "none")

\* setdefaultAll
setdefaultAll(s, key, defaultlist, b) ==
  LET g == getAllOrNull(s, key, b) IN
  IF g.kind = "raise" THEN Outcome(s, <<>>, "AssertionError")
  ELSE IF g.kind = "ptr" THEN getall(s, key, <<>>, b)
  ELSE LET r == addAll(s, key, defaultlist, b) IN
       IF r.err # "none" THEN r ELSE Outcome(r.s, defaultlist, "none")

\* setAll (cpdef void): self._tryDeleteAll(key); self.addAll(key, valueList)
setAll(s, key, valueList, b) ==
  LET r == tryDeleteAll(s, key, b) IN
  IF r.err # "none" THEN r ELSE addAll(r.s, key, valueList, b)

(***************************************************************************)
(* sort                                                                    *)
(***************************************************************************)
\* the sort key functions the model hands to sort: None (the pair itself),
\* lambda kv: kv[0] and lambda kv: kv[1]
SortKeys == {"pair", "key", "val"}

\* key(item) as a pair that is compared lexicographically
SortKeyOf(f, e) ==
  CASE f = "pair" -> <<KeyVal(e.key), e.val>>
    [] f = "key"  -> <<KeyVal(e.key), 0>>
    [] OTHER      -> <<e.val, 0>>

\* Python's < on two sort keys
SortLess(x, y) == x[1] < y[1] \/ (x[1] = y[1] /\ x[2] < y[2])

Reverse(seq) == [i \in 1..Len(seq) |-> seq[Len(seq) + 1 - i]]

\* e put behind every element of the sorted run that is not greater than it
InsertSorted(run, e, f) ==
  LET later == {i \in 1..Len(run) : SortLess(SortKeyOf(f, e), SortKeyOf(f, run[i]))}
      at    == IF later = {} THEN Len(run) + 1
               ELSE CHOOSE i \in later : \A j \in later : i <= j
  IN SubSeq(run, 1, at - 1) \o <<e>> \o SubSeq(run, at, Len(run))

RECURSIVE StableSort(_, _, _)
StableSort(run, rest, f) ==
  IF rest = <<>> THEN run
  ELSE StableSort(InsertSorted(run, Head(rest), f), Tail(rest), f)

\* a reverse sort that sorts ascending and reverses the result: pairs with
\* equal sort keys come out in reversed order
sorted_reversedResult(seq, f, reverse) ==
  IF reverse THEN Reverse(StableSort(<<>>, seq, f))
  ELSE StableSort(<<>>, seq, f)

\* sorted(iterable, key=key, reverse=reverse): list.sort reverses the list,
\* sorts it ascending and stable, and reverses it again when reverse is set
sorted(seq, f, reverse) ==
  IF reverse THEN Reverse(StableSort(<<>>, Reverse(seq), f))
  ELSE StableSort(<<>>, seq, f)

\* a sort that also compacts the slot counter to the number of items
sort_compact(s, f, reverse) ==
  LET srt == sorted(s.items, f, reverse) IN
  Outcome([items |-> [i \in 1..Len(srt) |->
                        [slot |-> i - 1, key |-> srt[i].key, val |-> srt[i].val]],
           map   |-> s.map,
           index |-> Len(srt)],
          <<>>, "none")

\* sort: self._items = OrderedDict(enumerate(sorted(self._items.values(), ...)))
sort(s, f, reverse) ==
  LET srt == sorted(s.items, f, reverse) IN
  Outcome([s EXCEPT !.items = [i \in 1..Len(srt) |->
                                 [slot |-> i - 1, key |-> srt[i].key, val |-> srt[i].val]]],
          <<>>, "none")

(***************************************************************************)
(* The views: keys(), uniqueKeys() and items() membership.                 *)
(***************************************************************************)
\* _ViewBase.__len__: len(self._impl._items)
ViewLen(s) == Len(s.items)

\* k in alreadySeen: a Python set finds an element with the same hash that
\* is the same object or equal
InSet(k, alreadySeen) ==
  \E x \in alreadySeen :
    x = k \/ (PyObjectPtrHash(x) = PyObjectPtrHash(k) /\ KeyEq(x, k))

\* (k for k in ks if k not in alreadySeen and not alreadySeen.add(k))
RECURSIVE NotAlreadySeen(_, _)
NotAlreadySeen(ks, alreadySeen) ==
  IF ks = <<>> THEN <<>>
  ELSE IF InSet(Head(ks), alreadySeen)
    THEN NotAlreadySeen(Tail(ks), alreadySeen)
    ELSE <<Head(ks)>> \o NotAlreadySeen(Tail(ks), alreadySeen \cup {Head(ks)})

\* _UniqueKeysView.__iter__
UniqueKeysIter(s) == NotAlreadySeen(KeysView(s), {})

\* a __reversed__ that reverses the deduplicated key list
UniqueKeysReversed_ofIter(s) == Reverse(UniqueKeysIter(s))

\* _UniqueKeysView.__reversed__: the same filter over the reversed ledger
UniqueKeysReversed(s) == NotAlreadySeen(Reverse(KeysView(s)), {})

\* _KeysView.__reversed__ written over the deduplicated keys
KeysReversed_unique(s) == Reverse(UniqueKeysIter(s))

\* _KeysView.__reversed__: (k for k, _ in reversed(self._impl._items.values()))
KeysReversed(s) == Reverse(KeysView(s))

\* the attributes a lookup on an OrderedMultiDictBase object finds
MethodNames ==
  {"load", "copy", "clear", "get", "getFirst", "getLast", "getall",
   "setdefault", "setdefaultAll", "setAll", "add", "addAll", "extend",
   "pop", "popAll", "popFirstItem", "popLastItem", "popFirst", "popLast",
   "deleteAll", "items", "keys", "uniqueKeys", "values", "sort"}

\* _ItemsView.__contains__((key, value)): `self._impl.getAll` is looked up
\* on the object when the call is made; the loop unpacks each element of the
\* list into (i, v)
ItemsViewContains(s, key, value, b) ==
  IF "getAll" \notin MethodNames THEN Outcome(s, <<>>, "AttributeError")
  ELSE LET g == getall(s, key, <<>>, b) IN
       IF g.err # "none" THEN g
       ELSE IF g.ret # <<>> THEN Outcome(s, <<>>, "TypeError")
       ELSE Outcome(s, <<FALSE>>, "none")

(***************************************************************************)
(* The mutating methods statement by statement.  Each operator gives the   *)
(* fields after every executed statement that writes _items, _map or       *)
(* _index, in program order; a raised exception ends the sequence.         *)
(***************************************************************************)
\* add: _index += 1; &self._map[0][key] (creates an empty entry);
\* self._items[index] = (key, value); values.push_back(pr)
addSteps(s, key, value, b) ==
  LET f   == MapFind(s.map, key)
      at  == IF f = {} THEN key ELSE CHOOSE k \in f : TRUE
      dq  == IF f = {} THEN <<>> ELSE s.map[at]
      s1  == [s EXCEPT !.index = s.index + 1]
      s2  == [s1 EXCEPT !.map = MapPut(s.map, at, dq)]
      s3  == [s2 EXCEPT !.items = ItemsSet(s.items, s.index, addKey(s, key), value)]
      s4  == [s3 EXCEPT !.map = MapPut(s.map, at, Append(dq, <<s.index, value>>))]
  IN
  IF dq # <<>> /\ ~ItemsHas(s.items, Head(dq)[1])
    THEN <<s1, s2>>
    ELSE <<s1, s2, s3, s4>>

\* popFirst: values.pop_front(); del self._items[index];
\* if values.empty(): self._map.erase(key)
popFirstSteps(s, key, b) ==
  LET g == getAllOrNull(s, key, b) IN
  IF g.kind # "ptr" THEN <<>>
  ELSE
    LET popped == Head(s.map[g.at])
        m1     == MapPut(s.map, g.at, Tail(s.map[g.at]))
        s1     == [s EXCEPT !.map = m1]
        s2     == [s1 EXCEPT !.items = ItemsDel(s.items, popped[1])]
        s3     == [s2 EXCEPT !.map = MapErase(m1, key)]
    IN
    IF ~ItemsHas(s.items, popped[1]) THEN <<s1>>
    ELSE IF m1[g.at] = <<>> THEN <<s1, s2, s3>>
    ELSE <<s1, s2>>

\* popLast: values.pop_back(); del self._items[index];
\* if values.empty(): self._map.erase(key)
popLastSteps(s, key, b) ==
  LET g == getAllOrNull(s, key, b) IN
  IF g.kind # "ptr" THEN <<>>
  ELSE
    LET dq     == s.map[g.at]
        popped == dq[Len(dq)]
        m1     == MapPut(s.map, g.at, SubSeq(dq, 1, Len(dq) - 1))
        s1     == [s EXCEPT !.map = m1]
        s2     == [s1 EXCEPT !.items = ItemsDel(s.items, popped[1])]
        s3     == [s2 EXCEPT !.map = MapErase(m1, key)]
    IN
    IF ~ItemsHas(s.items, popped[1]) THEN <<s1>>
    ELSE IF m1[g.at] = <<>> THEN <<s1, s2, s3>>
    ELSE <<s1, s2>>

\* for val in values[0]: del self._items[val.first] -- the fields after
\* each del; the loop stops at the first slot that is not in _items
RECURSIVE delEachSteps(_, _)
delEachSteps(s, dq) ==
  IF dq = <<>> \/ ~ItemsHas(s.items, Head(dq)[1]) THEN <<>>
  ELSE LET s1 == [s EXCEPT !.items = ItemsDel(s.items, Head(dq)[1])] IN
       <<s1>> \o delEachSteps(s1, Tail(dq))

\* popAll and _tryDeleteAll: the del loop, then self._map.erase(key)
popAllSteps(s, key, b) ==
  LET g == getAllOrNull(s, key, b) IN
  IF g.kind # "ptr" THEN <<>>
  ELSE
    LET d == delEach(s.items, s.map[g.at]) IN
    IF ~d.ok THEN delEachSteps(s, s.map[g.at])
    ELSE delEachSteps(s, s.map[g.at])
           \o <<[items |-> d.items, map |-> MapErase(s.map, key),
                 index |-> s.index]>>

\* deleteAll: the statements of _tryDeleteAll
deleteAllSteps(s, key, b) == popAllSteps(s, key, b)

\* popFirstItem: self._items.popitem(last=False); values.pop_front();
\* if values.empty(): self._map.erase(item[0])
popFirstItemSteps(s, b) ==
  IF s.items = <<>> THEN <<>>
  ELSE
    LET item == Head(s.items)
        s1   == [s EXCEPT !.items = Tail(s.items)]
        g    == getAllOrNull(s1, item.key, b)
    IN
    IF g.kind # "ptr" THEN <<s1>>
    ELSE
      LET m1 == MapPut(s1.map, g.at, Tail(s1.map[g.at]))
          s2 == [s1 EXCEPT !.map = m1]
      IN
      IF m1[g.at] = <<>>
        THEN <<s1, s2, [s2 EXCEPT !.map = MapErase(m1, item.key)]>>
        ELSE <<s1, s2>>

\* popLastItem: self._items.popitem(last=True); values.pop_back();
\* if values.empty(): self._map.erase(item[0])
popLastItemSteps(s, b) ==
  IF s.items = <<>> THEN <<>>
  ELSE
    LET item == s.items[Len(s.items)]
        s1   == [s EXCEPT !.items = SubSeq(s.items, 1, Len(s.items) - 1)]
        g    == getAllOrNull(s1, item.key, b)
    IN
    IF g.kind # "ptr" THEN <<s1>>
    ELSE
      LET dq == s1.map[g.at]
          m1 == MapPut(s1.map, g.at, SubSeq(dq, 1, Len(dq) - 1))
          s2 == [s1 EXCEPT !.map = m1]
      IN
      IF m1[g.at] = <<>>
        THEN <<s1, s2, [s2 EXCEPT !.map = MapErase(m1, item.key)]>>
        ELSE <<s1, s2>>

\* clear: self._map.clear(); self._items.clear(); self._index = 0
clearSteps(s) ==
  <<[s EXCEPT !.map = <<>>],
    [s EXCEPT !.map = <<>>, !.items = <<>>],
    [items |-> <<>>, map |-> <<>>, index |-> 0]>>

(***************************************************************************)
(* Equality                                                                *)
(***************************************************************************)
\* i1 != i2 on two (key, value) tuples
PairNe(p, q) == ~KeyEq(p[1], q[1]) \/ p[2] # q[2]

\* the loop of __eq__ over zip instead of zip_longest: it stops at the end of
\* the shorter sequence
eqLoop_zip(a, c) ==
  \A i \in 1..(IF Len(a) < Len(c) THEN Len(a) ELSE Len(c)) : ~PairNe(a[i], c[i])

\* the zip_longest loop of __eq__: a missing item is the fill value _absent
RECURSIVE eqLoop(_, _)
eqLoop(a, c) ==
  IF a = <<>> /\ c = <<>> THEN TRUE
  ELSE IF a = <<>> \/ c = <<>> THEN FALSE
  ELSE IF PairNe(Head(a), Head(c)) THEN FALSE
  ELSE eqLoop(Tail(a), Tail(c))

\* __eq__
Eq(s, other) == eqLoop(ItemsView(s), ItemsView(other))

\* __ne__: not self.__eq__(other)
Ne(s, other) == ~Eq(s, other)


(***************************************************************************)
(* The state machine: one OrderedMultiDictBase and the calls made on it.   *)
(***************************************************************************)
\* all sequences over S of length at most n
RECURSIVE SeqsUpTo(_, _)
SeqsUpTo(S, n) ==
  IF n = 0 THEN {<<>>}
  ELSE LET shorter == SeqsUpTo(S, n - 1) IN
       shorter \cup {Append(q, x) : q \in shorter, x \in S}

\* the value lists and the (key, value) lists handed to the list operations
ValueLists == SeqsUpTo(Values, MaxLen)
PairLists == SeqsUpTo(KeyObjs \X Values, MaxLen)

\* the default arguments: not given, None, a value
DefaultArgs == {<<>>, <<None>>, <<1>>}

\* the default arguments of popAll / getall: not given (None), [], [1]
ListDefaultArgs == {<<>>, << <<>> >>, << <<1>> >>}

Init ==
  /\ items = <<>>
  /\ map = <<>>
  /\ index = 0
  /\ build \in Builds

\* a call with outcome r: the object is left as r.s, whether the call
\* returned or raised
Call(r) ==
  /\ items' = r.s.items
  /\ map' = r.s.map
  /\ index' = r.s.index
  /\ UNCHANGED build

Add ==
  \E k \in KeyObjs, v \in Values :
    /\ index < MaxIndex
    /\ Call(add(Self, k, v, build))

AddAll ==
  \E k \in KeyObjs, vs \in ValueLists :
    /\ index + Len(vs) <= MaxIndex
    /\ Call(addAll(Self, k, vs, build))

Extend ==
  \E ps \in PairLists :
    /\ index + Len(ps) <= MaxIndex
    /\ Call(extend(Self, ps, build))

Load ==
  \E ps \in PairLists :
    /\ Len(ps) <= MaxIndex
    /\ Call(load(Self, ps, build))

Clear ==
  /\ Call(clear(Self))

SetDefault ==
  \E k \in KeyObjs, d \in Values :
    /\ index < MaxIndex
    /\ Call(setdefault(Self, k, d, build))

SetDefaultAll ==
  \E k \in KeyObjs, vs \in ValueLists :
    /\ index + Len(vs) <= MaxIndex
    /\ Call(setdefaultAll(Self, k, vs, build))

SetAll ==
  \E k \in KeyObjs, vs \in ValueLists :
    /\ index + Len(vs) <= MaxIndex
    /\ Call(setAll(Self, k, vs, build))

Pop ==
  \E k \in KeyObjs, d \in DefaultArgs :
    /\ Call(pop(Self, k, d, build))

PopFirst ==
  \E k \in KeyObjs, d \in DefaultArgs :
    /\ Call(popFirst(Self, k, d, build))

PopLast ==
  \E k \in KeyObjs, d \in DefaultArgs :
    /\ Call(popLast(Self, k, d, build))

PopAll ==
  \E k \in KeyObjs, d \in ListDefaultArgs :
    /\ Call(popAll(Self, k, d, build))

PopFirstItem ==
  \E d \in DefaultArgs :
    /\ Call(popFirstItem(Self, d, build))

PopLastItem ==
  \E d \in DefaultArgs :
    /\ Call(popLastItem(Self, d, build))

DeleteAll ==
  \E k \in KeyObjs :
    /\ Call(deleteAll(Self, k, build))

DelItem ==
  \E k \in KeyObjs :
    /\ Call(delitem(Self, k, build))

Sort ==
  \E f \in SortKeys, reverse \in BOOLEAN :
    /\ Call(sort(Self, f, reverse))

\* every mutating call but sort
NextNoSort ==
  \/ Add
  \/ AddAll
  \/ Extend
  \/ Load
  \/ Clear
  \/ SetDefault
  \/ SetDefaultAll
  \/ SetAll
  \/ Pop
  \/ PopFirst
  \/ PopLast
  \/ PopAll
  \/ PopFirstItem
  \/ PopLastItem
  \/ DeleteAll
  \/ DelItem

Next ==
  \/ NextNoSort
  \/ Sort

Spec == Init /\ [][Next]_vars

\* the map driven by add / pop / delete / set calls only
SpecNoSort == Init /\ [][NextNoSort]_vars

\* every mutating call but clear and load (which calls clear)
NextNoClear ==
  \/ Add
  \/ AddAll
  \/ Extend
  \/ SetDefault
  \/ SetDefaultAll
  \/ SetAll
  \/ Pop
  \/ PopFirst
  \/ PopLast
  \/ PopAll
  \/ PopFirstItem
  \/ PopLastItem
  \/ DeleteAll
  \/ DelItem
  \/ Sort

\* the map driven by add / pop / delete / set / sort calls
SpecNoClear == Init /\ [][NextNoClear]_vars


(***************************************************************************)
(* Vocabulary of the properties.                                           *)
(***************************************************************************)
\* a key equal to k has at least one live pair in the ledger
Present(s, k) == \E i \in 1..Len(s.items) : KeyEq(s.items[i].key, k)

\* the values of the live pairs whose key equals k, in items() order
LiveVals(s, k) ==
  LET sel == SelectSeq(s.items, LAMBDA e : KeyEq(e.key, k)) IN
  [i \in 1..Len(sel) |-> sel[i].val]

\* two sequences of (key, value) pairs are equal position by position
SamePairs(ps, qs) ==
  /\ Len(ps) = Len(qs)
  /\ \A i \in 1..Len(ps) : KeyEq(ps[i][1], qs[i][1]) /\ ps[i][2] = qs[i][2]

\* every (slot id, value) of the key index is in the ledger at that slot id
\* with that key and that value
IndexInLedger(s) ==
  \A k \in DOMAIN s.map : \A i \in 1..Len(s.map[k]) :
    /\ ItemsHas(s.items, s.map[k][i][1])
    /\ KeyEq(ItemsGet(s.items, s.map[k][i][1]).key, k)
    /\ ItemsGet(s.items, s.map[k][i][1]).val = s.map[k][i][2]

\* every ledger entry is listed under its key in the key index with its
\* slot id
LedgerInIndex(s) ==
  \A i \in 1..Len(s.items) :
    \E k \in DOMAIN s.map :
      /\ KeyEq(k, s.items[i].key)
      /\ \E j \in 1..Len(s.map[k]) : s.map[k][j][1] = s.items[i].slot

DualIndexConsistent(s) == IndexInLedger(s) /\ LedgerInIndex(s)

(***************************************************************************)
(* C1  Dual-index consistency.                                             *)
(***************************************************************************)
\* C1: in every state reachable by the public operations, every (slot id,
\* value) the key index lists under key k is in the ledger at that slot id
\* with key k and that value, and every ledger entry is listed under its key
\* in the key index with its slot id.
C1_DualIndexConsistency == DualIndexConsistent(Self)

(***************************************************************************)
(* C2  Insertion order.                                                    *)
(***************************************************************************)
\* C2: for every sequence of add(k_i, v_i) calls on an empty map, with keys
\* repeated arbitrarily, items() yields exactly the pairs (k_i, v_i) in call
\* order and values() yields the v_i in call order.
C2_InsertionOrder ==
  (items = <<>> /\ map = <<>>) =>
    \A ps \in SeqsUpTo(KeyObjs \X Values, 2) :
      LET r == extend(Self, ps, build) IN
      /\ r.err = "none"
      /\ SamePairs(ItemsView(r.s), ps)
      /\ ValuesView(r.s) = [i \in 1..Len(ps) |-> ps[i][2]]

(***************************************************************************)
(* C3  Multiplicity.                                                       *)
(***************************************************************************)
\* C3: in every state reachable by add / pop / delete / set operations, for
\* each present key k getall(k) is the list of the values of k's live pairs
\* in insertion order, get(k) and getFirst(k) return its first element and
\* getLast(k) its last; after add(k, v1); add(k, v2) on an empty map
\* getall(k) = [v1, v2], get(k) = v1, getLast(k) = v2, len(map) = 2 and
\* len(uniqueKeys()) = 1.
C3_Multiplicity ==
  /\ \A k \in KeyObjs :
       Present(Self, k) =>
         /\ getall(Self, k, <<>>, build) = Outcome(Self, LiveVals(Self, k), "none")
         /\ get(Self, k, <<>>, build) = Outcome(Self, <<Head(LiveVals(Self, k))>>, "none")
         /\ getFirst(Self, k, <<>>, build) = Outcome(Self, <<Head(LiveVals(Self, k))>>, "none")
         /\ getLast(Self, k, <<>>, build)
              = Outcome(Self, <<LiveVals(Self, k)[Len(LiveVals(Self, k))]>>, "none")
  /\ \A k \in KeyObjs, v1, v2 \in Values :
       LET s2 == add(add(EmptyDict, k, v1, build).s, k, v2, build).s IN
       /\ getall(s2, k, <<>>, build).ret = <<v1, v2>>
       /\ get(s2, k, <<>>, build).ret = <<v1>>
       /\ getLast(s2, k, <<>>, build).ret = <<v2>>
       /\ LenOf(s2) = 2
       /\ UniqueKeysLen(s2) = 1

\* a key holds two different values, so the order of getall is visible
C3_Witness ==
  \E k \in KeyObjs :
    /\ Present(Self, k)
    /\ Len(LiveVals(Self, k)) >= 2
    /\ LiveVals(Self, k)[1] # LiveVals(Self, k)[2]
    /\ getall(Self, k, <<>>, build).ret = LiveVals(Self, k)
    /\ getLast(Self, k, <<>>, build).ret # get(Self, k, <<>>, build).ret


(***************************************************************************)
(* C4  sort is a stable sort of the ledger with dense new slot ids.        *)
(***************************************************************************)
\* the permutations of 1..n
Perms(n) == {p \in [1..n -> 1..n] : \A i, j \in 1..n : p[i] = p[j] => i = j}

\* new is old rearranged by a permutation that puts the sort keys in order
\* (descending when reverse is set) and keeps items with equal sort keys in
\* their old relative order
IsStableSortOf(new, old, f, reverse) ==
  /\ Len(new) = Len(old)
  /\ \E p \in Perms(Len(old)) :
       /\ \A i \in 1..Len(old) :
            new[i].key = old[p[i]].key /\ new[i].val = old[p[i]].val
       /\ \A i, j \in 1..Len(old) :
            i < j =>
              LET a == SortKeyOf(f, old[p[i]])
                  c == SortKeyOf(f, old[p[j]])
              IN /\ IF reverse THEN ~SortLess(a, c) ELSE ~SortLess(c, a)
                 /\ (a = c => p[i] < p[j])

\* C4: sort(key=f, reverse=r) leaves the ledger holding the same pairs,
\* ordered as the stable sort of the previous items() by f (items with equal
\* sort keys keep their previous relative order), with slot ids reassigned to
\* exactly 0..n-1 in the new order; sorting [(5,2),(-1,1),(5,1)] by value
\* gives [(-1,1),(5,1),(5,2)] with slot ids 0,1,2.
C4_SortStable ==
  /\ \A f \in SortKeys, reverse \in BOOLEAN :
       LET r == sort(Self, f, reverse) IN
       /\ r.err = "none"
       /\ IsStableSortOf(r.s.items, items, f, reverse)
       /\ \A i \in 1..Len(r.s.items) : r.s.items[i].slot = i - 1
  /\ sort(load(EmptyDict, << <<4, 2>>, <<1, 1>>, <<4, 1>> >>, build).s, "val", FALSE).s.items
       = << [slot |-> 0, key |-> 1, val |-> 1],
            [slot |-> 1, key |-> 4, val |-> 1],
            [slot |-> 2, key |-> 4, val |-> 2] >>

\* a ledger whose slot ids are not 0..n-1 and whose two pairs have equal
\* values under keys that are out of order: a sort by key swaps them, a
\* reverse sort by value keeps their order, and both renumber the slots
C4_Witness ==
  /\ Len(items) = 2
  /\ items[1].slot # 0
  /\ items[1].val = items[2].val
  /\ KeyVal(items[1].key) > KeyVal(items[2].key)
  /\ sort(Self, "key", FALSE).s.items
       = << [slot |-> 0, key |-> items[2].key, val |-> items[2].val],
            [slot |-> 1, key |-> items[1].key, val |-> items[1].val] >>
  /\ sort(Self, "val", TRUE).s.items
       = << [slot |-> 0, key |-> items[1].key, val |-> items[1].val],
            [slot |-> 1, key |-> items[2].key, val |-> items[2].val] >>

(***************************************************************************)
(* C5  sort rebuilds the key index.                                        *)
(***************************************************************************)
\* C5: immediately after sort, for every key k the key index lists exactly
\* the new slot ids of k's ledger entries, so getall(k) equals the values of
\* k's pairs in the new items() order, get(k) is the first of them and
\* getLast(k) the last.
C5_SortRebuildsIndex ==
  DualIndexConsistent(Self) =>
    \A f \in SortKeys, reverse \in BOOLEAN :
      LET s2 == sort(Self, f, reverse).s IN
      /\ DualIndexConsistent(s2)
      /\ \A k \in KeyObjs :
           Present(s2, k) =>
             /\ getall(s2, k, <<>>, build).ret = LiveVals(s2, k)
             /\ get(s2, k, <<>>, build).ret = <<Head(LiveVals(s2, k))>>
             /\ getLast(s2, k, <<>>, build).ret
                  = <<LiveVals(s2, k)[Len(LiveVals(s2, k))]>>


(***************************************************************************)
(* C6  Purge-on-empty.                                                     *)
(***************************************************************************)
\* the key index entry found for key k holds exactly one value
HoldsOne(s, k) == \E x \in MapFind(s.map, k) : Len(s.map[x]) = 1

\* C6: in every reachable state no key is in the key index with an empty
\* value sequence; whenever popFirst, popLast, pop, popFirstItem or
\* popLastItem removes the last remaining value of key k, k is erased from
\* the index, so that afterwards `k in map` is false.
C6_PurgeOnEmpty ==
  /\ \A k \in DOMAIN map : map[k] # <<>>
  /\ \A k \in KeyObjs :
       HoldsOne(Self, k) =>
         /\ ~Contains(popFirst(Self, k, <<>>, build).s, k)
         /\ ~Contains(popLast(Self, k, <<>>, build).s, k)
         /\ ~Contains(pop(Self, k, <<>>, build).s, k)
  /\ (items # <<>> /\ HoldsOne(Self, Head(items).key)) =>
       ~Contains(popFirstItem(Self, <<>>, build).s, Head(items).key)
  /\ (items # <<>> /\ HoldsOne(Self, items[Len(items)].key)) =>
       ~Contains(popLastItem(Self, <<>>, build).s, items[Len(items)].key)

(***************************************************************************)
(* C7  Key-identity stability.                                             *)
(***************************************************************************)
\* C7: while a key stays present in the map, every entry added under an
\* equal key object is stored with the first-seen key object: add(k, v) on a
\* map that holds live pairs of a key equal to k appends a pair that carries
\* the key object of the oldest of them.
C7_KeyIdentityStable ==
  \A k \in KeyObjs, v \in Values :
    LET olds == {i \in 1..Len(items) : KeyEq(items[i].key, k)} IN
    (olds # {} /\ Contains(Self, k)) =>
      LET first == items[CHOOSE i \in olds : \A j \in olds : i <= j].key
          r     == add(Self, k, v, build)
      IN /\ r.err = "none"
         /\ r.s.items = Append(items, [slot |-> index, key |-> first, val |-> v])

(***************************************************************************)
(* C8  Round trip.                                                         *)
(***************************************************************************)
\* C8: for every reachable map M, a fresh map N populated by
\* N.load(M.items()) satisfies N == M and yields the same items() sequence.
C8_RoundTrip ==
  LET r == load(EmptyDict, ItemsView(Self), build) IN
  /\ r.err = "none"
  /\ Eq(r.s, Self)
  /\ SamePairs(ItemsView(r.s), ItemsView(Self))

(***************************************************************************)
(* C9  Equality is positional.                                             *)
(***************************************************************************)
\* the second maps the model compares a map with: the maps loaded from a
\* list of pairs, its copy, and its copy after one more call
OtherMaps(s, b) ==
  {load(EmptyDict, ps, b).s : ps \in SeqsUpTo(KeyObjs \X Values, 2)}
    \cup {copy(s)}
    \cup {sort(copy(s), f, reverse).s : f \in SortKeys, reverse \in BOOLEAN}
    \cup {popFirstItem(copy(s), <<>>, b).s, popLastItem(copy(s), <<>>, b).s}
    \cup {add(copy(s), k, v, b).s : k \in KeyObjs, v \in Values}
    \cup {popFirst(copy(s), k, <<>>, b).s : k \in KeyObjs}

\* C9: A == B holds iff the two items() sequences have the same length and
\* are pairwise equal position by position; A != B is the negation of
\* A == B; load([(-1,1),(5,2)]) and load([(5,2),(-1,1)]) are not equal.
C9_EqualityPositional ==
  /\ \A o \in OtherMaps(Self, build) :
       /\ Eq(Self, o) <=> SamePairs(ItemsView(Self), ItemsView(o))
       /\ Eq(o, Self) <=> SamePairs(ItemsView(o), ItemsView(Self))
       /\ Ne(Self, o) <=> ~Eq(Self, o)
  /\ Ne(load(EmptyDict, << <<1, 1>>, <<4, 2>> >>, build).s,
        load(EmptyDict, << <<4, 2>>, <<1, 1>> >>, build).s)

\* the map is compared with a longer map that starts with its items, with a
\* map holding the same pairs in another order, and with an equal map that
\* has other slot ids
C9_Witness ==
  /\ Len(items) = 2
  /\ ~KeyEq(items[1].key, items[2].key)
  /\ \E o \in OtherMaps(Self, build) :
       /\ Len(o.items) = 3
       /\ SamePairs(SubSeq(ItemsView(o), 1, 2), ItemsView(Self))
       /\ ~Eq(Self, o)
  /\ \E o \in OtherMaps(Self, build) :
       /\ ItemsView(o) = Reverse(ItemsView(Self))
       /\ Ne(Self, o)
  /\ \E o \in OtherMaps(Self, build) :
       /\ o.items # items
       /\ Eq(Self, o)

(***************************************************************************)
(* C10  popAll on an absent key.                                           *)
(***************************************************************************)
\* C10: popAll on an absent key raises KeyError when no default is given
\* and returns [] when the default is []; in both cases the ledger, the key
\* index and the slot counter are unchanged.
C10_PopAllAbsent ==
  \A k \in KeyObjs :
    ~Present(Self, k) =>
      /\ popAll(Self, k, <<>>, build) = Outcome(Self, <<>>, "KeyError")
      /\ popAll(Self, k, << <<>> >>, build) = Outcome(Self, <<>>, "none")

(***************************************************************************)
(* C11  popAll on a present key.                                           *)
(***************************************************************************)
\* the ledger entries of s whose key is not equal to k
OtherEntries(s, k) == SelectSeq(s.items, LAMBDA e : ~KeyEq(e.key, k))

\* C11: popAll(k) on a present key returns k's values oldest first (what
\* getall(k) returned just before), removes exactly k's entries from the
\* ledger, erases k from the key index, and leaves the entries of every
\* other key, their slot ids and their order unchanged.
C11_PopAllPresent ==
  \A k \in KeyObjs :
    Present(Self, k) =>
      LET r == popAll(Self, k, <<>>, build) IN
      /\ r.err = "none"
      /\ r.ret = getall(Self, k, <<>>, build).ret
      /\ r.ret = LiveVals(Self, k)
      /\ r.s.items = OtherEntries(Self, k)
      /\ ~Contains(r.s, k)
      /\ \A x \in DOMAIN r.s.map : x \in DOMAIN map /\ r.s.map[x] = map[x]

(***************************************************************************)
(* C12  popFirst / popLast.                                                *)
(***************************************************************************)
\* C12: popFirst(k) / popLast(k) on a present key with getall(k) = [v1..vn]
\* returns v1 / vn, leaves getall(k) = [v2..vn] / [v1..v(n-1)], and removes
\* from the ledger exactly the pair at the popped slot id, which held the
\* returned value; on an absent key with no default they raise KeyError.
C12_PopFirstLast ==
  \A k \in KeyObjs :
    IF Present(Self, k)
      THEN /\ Contains(Self, k)
           /\ LET dq == map[CHOOSE x \in MapFind(map, k) : TRUE]
                  vs == getall(Self, k, <<>>, build).ret
                  pf == popFirst(Self, k, <<>>, build)
                  pl == popLast(Self, k, <<>>, build)
              IN
              /\ dq # <<>>
              /\ vs = LiveVals(Self, k)
              /\ pf.err = "none"
              /\ pf.ret = <<Head(vs)>>
              /\ getall(pf.s, k, <<>>, build).ret = Tail(vs)
              /\ ItemsHas(items, Head(dq)[1])
              /\ ItemsGet(items, Head(dq)[1]).val = Head(vs)
              /\ KeyEq(ItemsGet(items, Head(dq)[1]).key, k)
              /\ pf.s.items = ItemsDel(items, Head(dq)[1])
              /\ pl.err = "none"
              /\ pl.ret = <<vs[Len(vs)]>>
              /\ getall(pl.s, k, <<>>, build).ret = SubSeq(vs, 1, Len(vs) - 1)
              /\ ItemsHas(items, dq[Len(dq)][1])
              /\ ItemsGet(items, dq[Len(dq)][1]).val = vs[Len(vs)]
              /\ KeyEq(ItemsGet(items, dq[Len(dq)][1]).key, k)
              /\ pl.s.items = ItemsDel(items, dq[Len(dq)][1])
      ELSE /\ popFirst(Self, k, <<>>, build) = Outcome(Self, <<>>, "KeyError")
           /\ popLast(Self, k, <<>>, build) = Outcome(Self, <<>>, "KeyError")

(***************************************************************************)
(* C13  popFirstItem / popLastItem on a non-empty map.                     *)
(***************************************************************************)
\* the key index of s without the (slot id, value) that carries slot under
\* the entry found for key k; the entry is erased when nothing is left
WithoutSlot(s, k, slot) ==
  LET x    == CHOOSE x \in MapFind(s.map, k) : TRUE
      rest == SelectSeq(s.map[x], LAMBDA p : p[1] # slot)
  IN IF rest = <<>> THEN MapErase(s.map, k) ELSE MapPut(s.map, x, rest)

\* popping the ledger entry e of s gave outcome r: r returns e's pair, the
\* ledger is left without e, and the key index without e's slot id
PopsEntry(s, e, r) ==
  /\ r.err = "none"
  /\ r.ret = <<e.key, e.val>>
  /\ r.s.items = ItemsDel(s.items, e.slot)
  /\ Contains(s, e.key)
  /\ \E p \in {s.map[x] : x \in MapFind(s.map, e.key)} :
       \E j \in 1..Len(p) : p[j][1] = e.slot
  /\ r.s.map = WithoutSlot(s, e.key, e.slot)
  /\ DualIndexConsistent(s) => DualIndexConsistent(r.s)

\* C13: in every reachable state with a non-empty ledger, popFirstItem() /
\* popLastItem() returns the first / last pair of items(), removes it from
\* the ledger, and removes from that key's index sequence exactly the entry
\* with the popped slot id (purging the key with its last value), so that
\* ledger and key index still agree.
C13_PopItems ==
  items # <<>> =>
    /\ PopsEntry(Self, Head(items), popFirstItem(Self, <<>>, build))
    /\ PopsEntry(Self, items[Len(items)], popLastItem(Self, <<>>, build))


(***************************************************************************)
(* C14  popFirstItem / popLastItem on an empty map.                        *)
(***************************************************************************)
\* C14: on a map with no entries popFirstItem / popLastItem raise KeyError
\* (the EmptyMap error) when no default is given and return the default when
\* one is given; in both cases the map stays empty and the slot counter is
\* unchanged.
C14_PopItemEmpty ==
  items = <<>> =>
    /\ popFirstItem(Self, <<>>, build) = Outcome(Self, <<>>, "KeyError")
    /\ popLastItem(Self, <<>>, build) = Outcome(Self, <<>>, "KeyError")
    /\ \A d \in {None} \cup Values :
         /\ popFirstItem(Self, <<d>>, build) = Outcome(Self, <<d>>, "none")
         /\ popLastItem(Self, <<d>>, build) = Outcome(Self, <<d>>, "none")

\* a map emptied by removals, with a slot counter that has advanced: the
\* item pops raise without a default and return a given default
C14_Witness ==
  /\ items = <<>>
  /\ index > 0
  /\ popFirstItem(Self, <<>>, build).err = "KeyError"
  /\ popLastItem(Self, <<1>>, build).ret = <<1>>
  /\ popFirstItem(Self, <<None>>, build).s.index = index

(***************************************************************************)
(* C15  The "Bad State" error is unreachable.                              *)
(***************************************************************************)
\* C15: in no state reachable by the public operations, sort included, does
\* popFirstItem or popLastItem raise RuntimeError("Bad State in
\* OrderedMultiDict").
C15_NoBadState ==
  /\ popFirstItem(Self, <<>>, build).err # "RuntimeError"
  /\ popLastItem(Self, <<>>, build).err # "RuntimeError"

(***************************************************************************)
(* C16  A supplied default short-circuits.                                 *)
(***************************************************************************)
\* C16: when the key is absent (the map is empty, for the item pops) and the
\* caller supplies a default, whatever its value, get, getFirst, getLast,
\* getall, pop, popFirst, popLast, popAll, popFirstItem and popLastItem
\* return that default, raise no error and leave ledger, key index and slot
\* counter unchanged.  None supplied to popAll reaches it as its default
\* parameter None, the <<>> of the model.
C16_DefaultShortCircuit ==
  /\ \A k \in KeyObjs :
       ~Present(Self, k) =>
         /\ \A d \in {None} \cup Values :
              /\ get(Self, k, <<d>>, build) = Outcome(Self, <<d>>, "none")
              /\ getFirst(Self, k, <<d>>, build) = Outcome(Self, <<d>>, "none")
              /\ getLast(Self, k, <<d>>, build) = Outcome(Self, <<d>>, "none")
              /\ pop(Self, k, <<d>>, build) = Outcome(Self, <<d>>, "none")
              /\ popFirst(Self, k, <<d>>, build) = Outcome(Self, <<d>>, "none")
              /\ popLast(Self, k, <<d>>, build) = Outcome(Self, <<d>>, "none")
         /\ \A l \in SeqsUpTo(Values, 1) :
              /\ getall(Self, k, <<l>>, build) = Outcome(Self, l, "none")
              /\ popAll(Self, k, <<l>>, build) = Outcome(Self, l, "none")
         /\ popAll(Self, k, <<>>, build).err = "none"
         /\ popAll(Self, k, <<>>, build).s = Self
  /\ items = <<>> =>
       \A d \in {None} \cup Values :
         /\ popFirstItem(Self, <<d>>, build) = Outcome(Self, <<d>>, "none")
         /\ popLastItem(Self, <<d>>, build) = Outcome(Self, <<d>>, "none")

(***************************************************************************)
(* C17  All-or-nothing mutation.                                           *)
(***************************************************************************)
\* the outcomes of every call of add, setdefault, pop, popFirst, popLast,
\* popAll, popFirstItem, popLastItem, deleteAll and sort on s
SingleCalls(s, b) ==
  {add(s, k, v, b) : k \in KeyObjs, v \in Values}
    \cup {setdefault(s, k, v, b) : k \in KeyObjs, v \in Values}
    \cup {pop(s, k, d, b) : k \in KeyObjs, d \in DefaultArgs}
    \cup {popFirst(s, k, d, b) : k \in KeyObjs, d \in DefaultArgs}
    \cup {popLast(s, k, d, b) : k \in KeyObjs, d \in DefaultArgs}
    \cup {popAll(s, k, d, b) : k \in KeyObjs, d \in ListDefaultArgs}
    \cup {popFirstItem(s, d, b) : d \in DefaultArgs}
    \cup {popLastItem(s, d, b) : d \in DefaultArgs}
    \cup {deleteAll(s, k, b) : k \in KeyObjs}
    \cup {sort(s, f, reverse) : f \in SortKeys, reverse \in BOOLEAN}

\* C17: in every reachable state, a call of a mutating operation other than
\* addAll / extend that raises an error leaves ledger, key index and slot
\* counter exactly as before the call, and no call leaves one of ledger and
\* key index updated without the other (a ledger and index that agree before
\* the call agree after it).
C17_AllOrNothing ==
  \A r \in SingleCalls(Self, build) :
    /\ r.err # "none" => r.s = Self
    /\ DualIndexConsistent(Self) => DualIndexConsistent(r.s)


(***************************************************************************)
(* C18  setdefault.                                                        *)
(***************************************************************************)
\* the pairs (k, l[1]), (k, l[2]), ...
PairsOf(k, l) == [i \in 1..Len(l) |-> <<k, l[i]>>]

\* C18: setdefault(k, d) on a present key returns the key's first (oldest)
\* value and changes nothing; on an absent key it appends (k, d) as the
\* newest item, makes getall(k) = [d] and returns d.
C18_SetDefault ==
  \A k \in KeyObjs, d \in Values :
    LET r == setdefault(Self, k, d, build) IN
    IF Present(Self, k)
      THEN r = Outcome(Self, <<Head(LiveVals(Self, k))>>, "none")
      ELSE /\ r.err = "none"
           /\ r.ret = <<d>>
           /\ SamePairs(ItemsView(r.s), Append(ItemsView(Self), <<k, d>>))
           /\ getall(r.s, k, <<>>, build).ret = <<d>>

(***************************************************************************)
(* C19  setdefaultAll.                                                     *)
(***************************************************************************)
\* C19: setdefaultAll(k, L) on a present key returns getall(k) and mutates
\* nothing; on an absent key with a non-empty L it adds the values of L
\* under k in order and returns L; on an absent key with L = [] it returns
\* [] and leaves the map unchanged: `k in map` stays false and
\* len(uniqueKeys()) is unchanged.
C19_SetDefaultAll ==
  \A k \in KeyObjs, l \in SeqsUpTo(Values, 2) :
    LET r == setdefaultAll(Self, k, l, build) IN
    IF Present(Self, k)
      THEN /\ r = Outcome(Self, getall(Self, k, <<>>, build).ret, "none")
           /\ r.ret = LiveVals(Self, k)
      ELSE IF l # <<>>
        THEN /\ r.err = "none"
             /\ r.ret = l
             /\ SamePairs(ItemsView(r.s), ItemsView(Self) \o PairsOf(k, l))
             /\ getall(r.s, k, <<>>, build).ret = l
        ELSE /\ r = Outcome(Self, <<>>, "none")
             /\ ~Contains(r.s, k)
             /\ UniqueKeysLen(r.s) = UniqueKeysLen(Self)

(***************************************************************************)
(* C20  setAll.                                                            *)
(***************************************************************************)
\* C20: setAll(k, values) leaves the state that deleting all of k's entries
\* (if k is present) and then adding each value in order leaves: getall(k)
\* is values, k's pairs are the newest items, the items of the other keys
\* keep their values and order, no error is raised when k was absent, and
\* setAll(k, []) leaves k absent from the map.
C20_SetAll ==
  \A k \in KeyObjs, l \in SeqsUpTo(Values, 2) :
    LET r == setAll(Self, k, l, build)
        d == IF Present(Self, k) THEN deleteAll(Self, k, build).s ELSE Self
    IN
    /\ r.err = "none"
    /\ r.s = addAll(d, k, l, build).s
    /\ getall(r.s, k, <<>>, build).ret = l
    /\ SamePairs(ItemsView(r.s),
                 ItemsView([items |-> OtherEntries(Self, k)]) \o PairsOf(k, l))
    /\ l = <<>> => ~Contains(r.s, k) /\ ~Present(r.s, k)


(***************************************************************************)
(* C21  deleteAll.                                                         *)
(***************************************************************************)
\* C21: deleteAll(k) on a present key removes every ledger entry of k and
\* erases k from the key index, leaving all other items and their order
\* unchanged; on an absent key it raises KeyError and leaves the map
\* unchanged.
C21_DeleteAll ==
  \A k \in KeyObjs :
    LET r == deleteAll(Self, k, build) IN
    IF Present(Self, k)
      THEN /\ r.err = "none"
           /\ r.s.items = OtherEntries(Self, k)
           /\ ~Contains(r.s, k)
           /\ r.s.index = index
      ELSE r = Outcome(Self, <<>>, "KeyError")

(***************************************************************************)
(* C22  add appends exactly one entry.                                     *)
(***************************************************************************)
\* C22: in every reachable state (after pops and after sort too) add(k, v)
\* appends exactly one entry: items() afterwards is items() before followed
\* by one pair with a key equal to k and value v, getall(k) afterwards is
\* getall(k) before followed by v, len(map) grows by 1 and getall(k') is
\* unchanged for every other key k'.
C22_AddAppends ==
  \A k \in KeyObjs, v \in Values :
    LET r == add(Self, k, v, build) IN
    /\ r.err = "none"
    /\ SamePairs(ItemsView(r.s), Append(ItemsView(Self), <<k, v>>))
    /\ getall(r.s, k, <<>>, build)
         = Outcome(r.s, Append(getall(Self, k, <<>>, build).ret, v), "none")
    /\ LenOf(r.s) = LenOf(Self) + 1
    /\ \A k2 \in KeyObjs :
         ~KeyEq(k2, k) =>
           getall(r.s, k2, <<>>, build).ret = getall(Self, k2, <<>>, build).ret


(***************************************************************************)
(* C23  Slot ids.                                                          *)
(***************************************************************************)
\* no two live pairs share a slot id, every live slot id is below the slot
\* counter, and the entry an add puts into the ledger gets the slot counter
\* as its slot id
SlotIdsFresh(s, b) ==
  /\ \A i, j \in 1..Len(s.items) : i # j => s.items[i].slot # s.items[j].slot
  /\ \A i \in 1..Len(s.items) : s.items[i].slot < s.index
  /\ \A k \in KeyObjs, v \in Values :
       LET r == add(s, k, v, b) IN
       \A i \in 1..Len(r.s.items) :
         ~ItemsHas(s.items, r.s.items[i].slot) =>
           /\ r.s.items[i].slot = s.index
           /\ \A j \in 1..Len(s.items) : s.items[j].slot < r.s.items[i].slot

\* C23: across any sequence of add / pop / delete / set / sort operations
\* the slot counter never decreases, every add assigns a slot id strictly
\* greater than the slot id of every live pair, and no two live pairs share
\* a slot id.
C23_SlotIds == [](SlotIdsFresh(Self, build)) /\ [][index' >= index]_vars

\* a pop has left a gap below the one live pair, the counter stayed where it
\* was, and the next add takes the counter as its slot id
C23_Witness ==
  /\ Len(items) = 1
  /\ items[1].slot = 1
  /\ index = 2
  /\ add(Self, items[1].key, 1, build).s.items[2].slot = 2


(***************************************************************************)
(* C24  copy.                                                              *)
(***************************************************************************)
\* the heaps one call of a mutating method on object o of heap h leaves
AfterOneCall(h, o, b) ==
  LET s == Deref(h, o) IN
  {Mutate(h, o, r.s) :
     r \in {add(s, k, v, b) : k \in KeyObjs, v \in Values}
       \cup {setdefault(s, k, v, b) : k \in KeyObjs, v \in Values}
       \cup {setAll(s, k, l, b) : k \in KeyObjs, l \in SeqsUpTo(Values, 1)}
       \cup {popFirst(s, k, <<>>, b) : k \in KeyObjs}
       \cup {popLast(s, k, <<>>, b) : k \in KeyObjs}
       \cup {popAll(s, k, <<>>, b) : k \in KeyObjs}
       \cup {deleteAll(s, k, b) : k \in KeyObjs}
       \cup {popFirstItem(s, <<>>, b), popLastItem(s, <<>>, b), clear(s)}}
    \cup {Rebind(h, o, sort(s, f, reverse).s.items) :
            f \in SortKeys, reverse \in BOOLEAN}

\* C24: copy() returns a map with the same items in the same order, the
\* same slot ids, the same key index and the same slot counter as the
\* original, so that copy == original, and a later mutation of either one
\* leaves the ledger, key index and counter of the other unchanged.
C24_Copy ==
  LET h == copyObj(HeapOf(Self), 1) IN
  /\ Deref(h, 1) = Self
  /\ Deref(h, 2) = Self
  /\ Deref(h, 2) = copy(Self)
  /\ Eq(Deref(h, 2), Deref(h, 1))
  /\ \A h2 \in AfterOneCall(h, 1, build) : Deref(h2, 2) = Self
  /\ \A h2 \in AfterOneCall(h, 2, build) : Deref(h2, 1) = Self

\* a map with live pairs and an advanced counter is copied, and calls that
\* change the ledger, the key index or the counter of the original or of
\* the copy are made
C24_Witness ==
  LET h == copyObj(HeapOf(Self), 1) IN
  /\ Len(items) >= 2
  /\ index > Len(items)
  /\ Deref(h, 2) = Self
  /\ \E h2 \in AfterOneCall(h, 1, build) :
       /\ Deref(h2, 1).items # items
       /\ Deref(h2, 1).map # map
       /\ Deref(h2, 2) = Self
  /\ \E h2 \in AfterOneCall(h, 2, build) :
       /\ Deref(h2, 2).index # index
       /\ Deref(h2, 1) = Self


(***************************************************************************)
(* C25  uniqueKeys().                                                      *)
(***************************************************************************)
\* u lists each distinct key of the key sequence ks exactly once, each as
\* the object of its first occurrence, in order of first occurrence
FirstOccurrences(u, ks) ==
  LET firsts == {i \in 1..Len(ks) : \A j \in 1..(i - 1) : ~KeyEq(ks[j], ks[i])} IN
  /\ Len(u) = Cardinality(firsts)
  /\ \A i \in 1..Len(u) :
       \E p \in firsts :
         /\ u[i] = ks[p]
         /\ Cardinality({q \in firsts : q < p}) = i - 1

\* C25: in every reachable state iterating uniqueKeys() yields each distinct
\* key of items() exactly once, in order of first occurrence in items(), and
\* len(uniqueKeys()) equals the number of keys the iteration yields.
C25_UniqueKeys ==
  /\ FirstOccurrences(UniqueKeysIter(Self), KeysView(Self))
  /\ UniqueKeysLen(Self) = Len(UniqueKeysIter(Self))

(***************************************************************************)
(* C26  reversed(uniqueKeys()).                                            *)
(***************************************************************************)
\* C26: reversed(uniqueKeys()) yields each distinct key exactly once, in the
\* order in which keys are first met when items() is scanned from newest to
\* oldest; after add(k1, a); add(k2, b); add(k1, c) with k1 # k2 both
\* uniqueKeys() and reversed(uniqueKeys()) yield [k1, k2].
C26_ReversedUniqueKeys ==
  /\ FirstOccurrences(UniqueKeysReversed(Self), Reverse(KeysView(Self)))
  /\ LET s3 == load(EmptyDict, << <<1, 1>>, <<4, 2>>, <<1, 2>> >>, build).s IN
     /\ UniqueKeysIter(s3) = <<1, 4>>
     /\ UniqueKeysReversed(s3) = <<1, 4>>

\* the newest pair has the key of the oldest one and another key lies
\* between them: the reversed view starts with that key, the reversed
\* forward view does not
C26_Witness ==
  /\ Len(items) = 3
  /\ KeyEq(items[1].key, items[3].key)
  /\ ~KeyEq(items[1].key, items[2].key)
  /\ UniqueKeysReversed(Self) = <<items[3].key, items[2].key>>
  /\ UniqueKeysReversed(Self) = UniqueKeysIter(Self)

(***************************************************************************)
(* C27  keys().                                                            *)
(***************************************************************************)
\* C27: keys() yields one key per (key, value) pair in items() order, so a
\* key with n values appears n times; its length is len(items()); and
\* reversed(keys()) is the exact reverse of that stream.
C27_Keys ==
  /\ Len(KeysView(Self)) = Len(ItemsView(Self))
  /\ \A i \in 1..Len(ItemsView(Self)) : KeysView(Self)[i] = ItemsView(Self)[i][1]
  /\ \A k \in KeyObjs :
       Cardinality({i \in 1..Len(KeysView(Self)) : KeyEq(KeysView(Self)[i], k)})
         = Len(LiveVals(Self, k))
  /\ ViewLen(Self) = Len(ItemsView(Self))
  /\ Len(KeysReversed(Self)) = Len(KeysView(Self))
  /\ \A i \in 1..Len(KeysView(Self)) :
       KeysReversed(Self)[i] = KeysView(Self)[Len(KeysView(Self)) + 1 - i]

\* a key with two values next to a key with one: keys() names it twice and
\* reversed(keys()) is longer than the list of distinct keys
C27_Witness ==
  /\ Len(items) = 3
  /\ Len(UniqueKeysIter(Self)) = 2
  /\ Len(KeysView(Self)) = 3
  /\ KeysReversed(Self)[1] = items[3].key
  /\ KeysReversed(Self)[3] = items[1].key

(***************************************************************************)
(* C28  Membership in items().                                             *)
(***************************************************************************)
\* C28: for every pair (k, v) and every reachable state `(k, v) in items()`
\* completes without error and is true iff v is one of the values of
\* getall(k) (false when k is absent).
C28_ItemsMembership ==
  \A k \in KeyObjs, v \in Values :
    LET r  == ItemsViewContains(Self, k, v, build)
        vs == getall(Self, k, <<>>, build).ret
    IN
    /\ r.err = "none"
    /\ r.s = Self
    /\ r.ret = <<\E i \in 1..Len(vs) : vs[i] = v>>


(***************************************************************************)
(* C29  pop is popLast.                                                    *)
(***************************************************************************)
\* C29: from the same state and with the same arguments pop(k, default) and
\* popLast(k, default) return the same value or raise the same error and
\* leave the same ledger, key index and counter.
C29_PopIsPopLast ==
  \A k \in KeyObjs, d \in DefaultArgs :
    pop(Self, k, d, build) = popLast(Self, k, d, build)

\* a key with two different values: pop takes the newest, which popFirst
\* would not
C29_Witness ==
  \E k \in KeyObjs :
    /\ Len(LiveVals(Self, k)) = 2
    /\ LiveVals(Self, k)[1] # LiveVals(Self, k)[2]
    /\ pop(Self, k, <<>>, build).err = "none"
    /\ pop(Self, k, <<>>, build).ret = <<LiveVals(Self, k)[2]>>
    /\ pop(Self, k, <<>>, build) # popFirst(Self, k, <<>>, build)

(***************************************************************************)
(* C30  The list operations are sequences of single adds.                  *)
(***************************************************************************)
\* the outcome of the calls add(ps[1]), ..., add(ps[n]) issued one after
\* another; a call that raises ends the sequence
RECURSIVE AddsOneByOne(_, _, _, _)
AddsOneByOne(s, ps, n, b) ==
  IF n = 0 THEN Outcome(s, <<>>, "none")
  ELSE LET r == AddsOneByOne(s, ps, n - 1, b) IN
       IF r.err # "none" THEN r ELSE add(r.s, ps[n][1], ps[n][2], b)

\* C30: addAll(k, [v1..vn]), extend([(k1,v1)..(kn,vn)]) and construction
\* from an iterable of pairs each leave exactly the ledger, key index, slot
\* ids and counter that the corresponding single add calls, issued one after
\* another in input order, leave.
C30_ListOpsAreAdds ==
  /\ \A k \in KeyObjs, l \in SeqsUpTo(Values, 2) :
       addAll(Self, k, l, build) = AddsOneByOne(Self, PairsOf(k, l), Len(l), build)
  /\ \A ps \in SeqsUpTo(KeyObjs \X Values, 2) :
       /\ extend(Self, ps, build) = AddsOneByOne(Self, ps, Len(ps), build)
       /\ construct(<<ps>>, build) = AddsOneByOne(EmptyDict, ps, Len(ps), build)

\* two different pairs are added by one extend to a map that already holds
\* a pair: they become the two newest entries, in input order, with the next
\* two slot ids
C30_Witness ==
  /\ items # <<>>
  /\ \E ps \in SeqsUpTo(KeyObjs \X Values, 2) :
       /\ Len(ps) = 2
       /\ ps[1] # ps[2]
       /\ extend(Self, ps, build).s.items
            = items \o << [slot |-> index, key |-> ps[1][1], val |-> ps[1][2]],
                          [slot |-> index + 1, key |-> ps[2][1], val |-> ps[2][2]] >>
       /\ extend(Self, ps, build).s.index = index + 2

(***************************************************************************)
(* C31  Update ordering inside a mutation.                                 *)
(***************************************************************************)
\* every slot id the key index lists is a slot id of the ledger
NoAbsentSlot(s) ==
  \A k \in DOMAIN s.map : \A i \in 1..Len(s.map[k]) :
    ItemsHas(s.items, s.map[k][i][1])

\* the statement-by-statement field sequences of every call of add, popFirst,
\* popLast, popAll, deleteAll, popFirstItem, popLastItem and clear on s
MutationSteps(s, b) ==
  {addSteps(s, k, v, b) : k \in KeyObjs, v \in Values}
    \cup {popFirstSteps(s, k, b) : k \in KeyObjs}
    \cup {popLastSteps(s, k, b) : k \in KeyObjs}
    \cup {popAllSteps(s, k, b) : k \in KeyObjs}
    \cup {deleteAllSteps(s, k, b) : k \in KeyObjs}
    \cup {popFirstItemSteps(s, b), popLastItemSteps(s, b), clearSteps(s)}

\* C31: at every intermediate step of every mutating operation (add,
\* popFirst, popLast, popAll, deleteAll, popFirstItem, popLastItem, clear)
\* the key index references no slot id that is absent from the ledger: a
\* removal drops the index reference no later than the ledger entry, an
\* insertion writes the ledger entry before the index reference.
C31_UpdateOrdering ==
  \A t \in MutationSteps(Self, build) :
    \A i \in 1..Len(t) : NoAbsentSlot(t[i])

(***************************************************************************)
(* C32  Per-key order.                                                     *)
(***************************************************************************)
\* every sequence of the key index is in strictly ascending slot-id order
AscendingSlots(s) ==
  \A k \in DOMAIN s.map : \A i, j \in 1..Len(s.map[k]) :
    i < j => s.map[k][i][1] < s.map[k][j][1]

\* the ledger entries whose key equals k, in items() order
LiveEntries(s, k) == SelectSeq(s.items, LAMBDA e : KeyEq(e.key, k))

\* the (slot id, value) dq[i] is the ledger entry e
IsEntry(p, e) == p[1] = e.slot /\ p[2] = e.val

\* the front of every sequence of the key index is the oldest live pair of
\* its key in items() order, its back the newest
FrontOldestBackNewest(s) ==
  \A k \in DOMAIN s.map :
    LET dq == s.map[k]
        le == LiveEntries(s, k)
    IN
    /\ dq # <<>>
    /\ le # <<>>
    /\ IsEntry(dq[1], le[1])
    /\ IsEntry(dq[Len(dq)], le[Len(le)])

\* C32: in every reachable state (after sort and after pops too) each key's
\* index sequence is in strictly ascending slot-id order, so that its front
\* is that key's oldest live pair in items() order and its back is that
\* key's newest.
C32_PerKeyOrder == AscendingSlots(Self) /\ FrontOldestBackNewest(Self)

(***************************************************************************)
(* C33  Keys are identified by equality.                                   *)
(***************************************************************************)
\* a lookup of key finds only an entry whose stored key is equal to key
SharesOnlyIfEqual(s) ==
  \A k \in KeyObjs : \A x \in MapFind(s.map, k) : KeyEq(x, k)

\* add(k2, v) leaves getall(k1) of every unequal key k1 as it was and the
\* item it stores carries a key equal to k2
AddKeepsOtherKeys(s, b) ==
  \A k1, k2 \in KeyObjs, v \in Values :
    LET r == add(s, k2, v, b) IN
    (~KeyEq(k1, k2) /\ s.index < MaxIndex) =>
      /\ r.err = "none"
      /\ getall(r.s, k1, <<>>, b) = [getall(s, k1, <<>>, b) EXCEPT !.s = r.s]
      /\ r.s.items # <<>>
      /\ KeyEq(r.s.items[Len(r.s.items)].key, k2)

\* while only keys equal to k1 have been added, `k2 in map` is false for
\* every k2 unequal to k1
OnlyAddedKeysContained(s) ==
  \A k1, k2 \in KeyObjs :
    (/\ ~KeyEq(k1, k2)
     /\ s.items # <<>>
     /\ \A i \in 1..Len(s.items) : KeyEq(s.items[i].key, k1))
      => ~Contains(s, k2)

\* C33: two keys share one key-index entry only if they are equal: for
\* unequal keys k1 and k2, with equal hashes too, add(k2, v) leaves
\* getall(k1) unchanged, the stored item carries key k2, and `k2 in map` is
\* false while only k1 has been added.
C33_KeysByEquality ==
  /\ SharesOnlyIfEqual(Self)
  /\ AddKeepsOtherKeys(Self, build)
  /\ OnlyAddedKeysContained(Self)

(***************************************************************************)
(* C34  load discards the previous contents.                               *)
(***************************************************************************)
\* s holds exactly n pairs with the values of ps in order, at the slot ids
\* 0..n-1, each slot id listed once in the key index, and the counter is n
FreshlyLoaded(s, ps) ==
  /\ s.index = Len(ps)
  /\ Len(s.items) = Len(ps)
  /\ \A i \in 1..Len(ps) :
       /\ s.items[i].slot = i - 1
       /\ s.items[i].val = ps[i][2]
       /\ PyObjectPtrHashEqual(s.items[i].key, ps[i][1])
       /\ Cardinality({<<k, j>> \in (DOMAIN s.map) \X (1..Len(ps)) :
                         j <= Len(s.map[k]) /\ s.map[k][j] = <<i - 1, ps[i][2]>>}) = 1

\* C34: load(iterable) discards all previous contents: whatever the map held
\* before, the state it leaves (items, key index, slot ids 0..n-1, counter n)
\* is the state of a freshly constructed map built from the same iterable.
C34_LoadDiscards ==
  \A ps \in SeqsUpTo(KeyObjs \X Values, 2) :
    LET r == load(Self, ps, build) IN
    /\ r = construct(<<ps>>, build)
    /\ r.err = "none"
    /\ FreshlyLoaded(r.s, ps)

\* a map with live pairs and popped slot ids, stale after a sort, on which
\* load of two pairs leaves the counter at 2
C34_Witness ==
  /\ items # <<>>
  /\ index > Len(items)
  /\ ~DualIndexConsistent(Self)
  /\ load(Self, <<<<1, 1>>, <<4, 2>>>>, build).s.index = 2

(***************************************************************************)
(* C35  Reads are pure.                                                    *)
(***************************************************************************)
\* the outcomes of every call of get, getFirst, getLast, getall and map[k]
\* with key k on s
ReadsOf(s, k, b) ==
  {get(s, k, d, b) : d \in DefaultArgs}
    \cup {getFirst(s, k, d, b) : d \in DefaultArgs}
    \cup {getLast(s, k, d, b) : d \in DefaultArgs}
    \cup {getall(s, k, d, b) : d \in ListDefaultArgs}
    \cup {GetItem(s, k, b)}

\* C35: get, getFirst, getLast, getall and map[k] leave ledger, key index
\* and slot counter unchanged, for a present and for an absent key, whether
\* they return or raise; looking up an absent key creates no (empty)
\* key-index entry: `k in map`, len(map), len(uniqueKeys()), the views and
\* == read the same afterwards.
C35_ReadsArePure ==
  \A k \in KeyObjs : \A r \in ReadsOf(Self, k, build) :
    /\ r.s = Self
    /\ \A x \in KeyObjs : Contains(r.s, x) = Contains(Self, x)
    /\ UniqueKeysLen(r.s) = UniqueKeysLen(Self)
    /\ LenOf(r.s) = LenOf(Self)
    /\ ItemsView(r.s) = ItemsView(Self)
    /\ UniqueKeysIter(r.s) = UniqueKeysIter(Self)
    /\ Eq(r.s, Self)

\* a non-empty map on which key 5 is looked up while absent and key -1
\* while present
C35_Witness ==
  /\ items # <<>>
  /\ ~Contains(Self, 4)
  /\ get(Self, 4, <<>>, build) = Outcome(Self, <<None>>, "none")
  /\ GetItem(Self, 4, build).err = "KeyError"
  /\ Contains(Self, 1)
  /\ GetItem(Self, 1, build).err = "none"

(***************************************************************************)
(* C36  Item-style deletion.                                               *)
(***************************************************************************)
\* C36: `del map[k]` behaves as pop(k) with no default: on a present key it
\* removes only the newest value of k (k keeps its older values, the entries
\* of the other keys stay) and on an absent key it raises KeyError and
\* leaves the map unchanged.
C36_DelItem ==
  \A k \in KeyObjs :
    LET r == delitem(Self, k, build)
        p == pop(Self, k, <<>>, build)
        n == Len(LiveVals(Self, k))
    IN
    /\ r.s = p.s
    /\ r.err = p.err
    /\ Present(Self, k) =>
         /\ r.err = "none"
         /\ LiveVals(r.s, k) = SubSeq(LiveVals(Self, k), 1, n - 1)
         /\ OtherEntries(r.s, k) = OtherEntries(Self, k)
    /\ ~Present(Self, k) =>
         /\ r.err = "KeyError"
         /\ r.s = Self

(***************************************************************************)
(* C37  add followed by popLastItem.                                       *)
(***************************************************************************)
\* C37: in every reachable state add(k, v) immediately followed by
\* popLastItem() returns a pair with a key equal to k and the value v and
\* restores the ledger and the key index exactly to what they were before
\* the add; only the slot counter has advanced by one.
C37_AddPopLastItem ==
  \A k \in KeyObjs, v \in Values :
    index < MaxIndex =>
      LET a == add(Self, k, v, build)
          p == popLastItem(a.s, <<>>, build)
      IN
      /\ a.err = "none"
      /\ p.err = "none"
      /\ Len(p.ret) = 2
      /\ KeyEq(p.ret[1], k)
      /\ p.ret[2] = v
      /\ p.s.items = items
      /\ p.s.map = map
      /\ p.s.index = index + 1

(***************************************************************************)
(* C38  Size agreement between the two structures.                         *)
(***************************************************************************)
\* the sum over the keys of the key index of the length of the key's
\* sequence
IndexSize(s) ==
  Cardinality({<<k, j>> \in (DOMAIN s.map) \X (1..MaxIndex) : j <= Len(s.map[k])})

\* len(map) is the sum of the lengths of the index sequences
LenIsIndexSize(s) == LenOf(s) = IndexSize(s)

\* `k in map` holds exactly when some pair of items() has a key equal to k
ContainsIffPresent(s) == \A k \in KeyObjs : Contains(s, k) <=> Present(s, k)

\* the truth value of the map is false exactly when len(map) = 0
FalseIffEmpty(s) == ~Nonzero(s) <=> LenOf(s) = 0

\* C38: in every reachable state len(map) (the ledger size) equals the sum
\* over all keys of the key index of the length of the key's sequence,
\* `k in map` holds exactly when some pair of items() has a key equal to k,
\* and the truth value of the map is false exactly when len(map) = 0.
C38_SizeAgreement ==
  /\ LenIsIndexSize(Self)
  /\ ContainsIffPresent(Self)
  /\ FalseIffEmpty(Self)

(***************************************************************************)
(* C39  Counter headroom.                                                  *)
(***************************************************************************)
\* every slot id of the ledger is strictly less than the slot counter
Headroom(s) == \A i \in 1..Len(s.items) : s.items[i].slot < s.index

\* the ledger write of add(k, v) on s keeps every entry of s as it is: the
\* ledger after the call is the ledger before, followed by at most one new
\* entry at the slot id s.index
AddKeepsLiveEntries(s, b) ==
  \A k \in KeyObjs, v \in Values :
    LET r == add(s, k, v, b) IN
    /\ ~ItemsHas(s.items, s.index)
    /\ Len(r.s.items) >= Len(s.items)
    /\ SubSeq(r.s.items, 1, Len(s.items)) = s.items
    /\ \A i \in (Len(s.items) + 1)..Len(r.s.items) : r.s.items[i].slot = s.index

\* C39: in every reachable state every slot id present in the ledger is
\* strictly less than the slot counter, right after sort has renumbered the
\* ids to 0..n-1 without touching the counter and right after copy too;
\* hence the ledger write in add never overwrites a live entry.
C39_CounterHeadroom ==
  /\ Headroom(Self)
  /\ \A f \in SortKeys, reverse \in BOOLEAN :
       LET r == sort(Self, f, reverse) IN
       /\ Headroom(r.s)
       /\ r.s.index = index
       /\ AddKeepsLiveEntries(r.s, build)
  /\ Headroom(copy(Self))
  /\ AddKeepsLiveEntries(copy(Self), build)
  /\ AddKeepsLiveEntries(Self, build)

\* pops have left the counter above the number of live pairs, a sort has
\* renumbered the two live pairs to 0 and 1, and an add writes a third entry
\* at the counter
C39_Witness ==
  /\ Len(items) = 2
  /\ items[1].slot = 0
  /\ items[2].slot = 1
  /\ index = 3
  /\ ~DualIndexConsistent(Self)
  /\ \E k \in KeyObjs :
       /\ Len(add(Self, k, 1, build).s.items) = 3
       /\ add(Self, k, 1, build).s.items[3].slot = 3

=============================================================================
